---------------------------- MODULE Spec2Model ----------------------------
(***************************************************************************)
(* A model of the PageGraph store (src/src/graph.rs) and of the queries    *)
(* built on it (src/src/graph_algos.rs).                                   *)
(*                                                                         *)
(* The graph is built once and never changes afterwards: the variables     *)
(* nodes, edges and graph are drawn in Init and left alone by every        *)
(* action.  Each query is an action (the work-list traversal of            *)
(* all_downstream_effects_of is three: its entry, one loop iteration, its  *)
(* return).  The iteration order of a HashMap and of an adjacency list is  *)
(* not fixed by the code, so every query draws it (ord) from all orders.   *)
(***************************************************************************)
EXTENDS Integers, Sequences, FiniteSets, TLC

\* ------------------------------------------------------------------ bounds
MaxNodes == 3

MaxEdges == 2

MaxTime == 3

\* Entries the visited list can hold before memory runs out; more than a
\* traversal that visits every node once needs.
MaxChecked == 4

\* ------------------------------------------------------------- Option<T>
None == << >>

Some(x) == << x >>

\* ---------------------------------------------------------- the taxonomy
\* NodeType variants the queries match on, with the payload they read.
DomRootKind(url) == [kind |-> "DomRoot", url |-> url]

HtmlElementKind(tag_name) == [kind |-> "HtmlElement", tag_name |-> tag_name]

ResourceKind(url) == [kind |-> "Resource", url |-> url]

ScriptKind == [kind |-> "Script"]

TextNodeKind == [kind |-> "TextNode"]

\* EdgeType variants the queries match on.
StructureEdge == [kind |-> "Structure"]

RequestStartEdge(request_type) == [kind |-> "RequestStart", request_type |-> request_type]

RequestCompleteEdge == [kind |-> "RequestComplete"]

\* Any edge kind the queries have no arm for (the `_` arms).
OtherActionEdge == [kind |-> "OtherAction"]

Node(node_type) == [node_type |-> node_type]

Edge(edge_timestamp, edge_type) == [edge_timestamp |-> edge_timestamp, edge_type |-> edge_type]

\* ----------------------------------------------------------------- state
VARIABLES
  nodes,            \* PageGraph.nodes: NodeId -> Node
  edges,            \* PageGraph.edges: EdgeId -> Edge
  graph,            \* PageGraph.graph: (NodeId, NodeId) -> EdgeId, one edge per ordered pair
  pc,               \* "idle", "loop" (inside all_downstream_effects_of), "done", "panic", "abort"
  op,               \* the query called last
  arg,              \* its argument (a node id or a pattern)
  ret,              \* its result: [status, value, msg]
  nodes_to_check,   \* all_downstream_effects_of: the work-list
  already_checked,  \* all_downstream_effects_of: the visited list
  prev_root_url     \* the outcome of the root_url call before the last one

vars == << nodes, edges, graph, pc, op, arg, ret, nodes_to_check, already_checked, prev_root_url >>

store == << nodes, edges, graph >>

NodeIds == 1 .. MaxNodes

Timestamps == { 10 * t : t \in 1 .. MaxTime }

\* The edge id the store holds for the ordered pair p.
EdgeIdOf(p) == (p[1] - 1) * MaxNodes + p[2]

Ok(value) == [status |-> "ok", value |-> value, msg |-> ""]

Panic(msg) == [status |-> "panic", value |-> << >>, msg |-> msg]

NoResult == [status |-> "none", value |-> << >>, msg |-> ""]

\* ------------------------------------------------------ sequence helpers
\* All orders in which an iterator can yield the elements of S.
Orders(S) == { s \in [1 .. Cardinality(S) -> S] : \A i, j \in DOMAIN s : s[i] = s[j] => i = j }

Range(s) == { s[i] : i \in DOMAIN s }

\* Two of them: by ascending and by descending id.
Ascending(n) == [i \in 1 .. n |-> i]

Descending(n) == [i \in 1 .. n |-> n + 1 - i]

\* Every order the nodes can be walked in.
AllOrders == Orders(1 .. MaxNodes)

\* The orders the tracing queries walk an adjacency list in, and root_url and
\* resources_matching_filter the node map.
IterationOrders == { Ascending(MaxNodes), Descending(MaxNodes) }

RECURSIVE Flatten(_)
Flatten(ss) == IF ss = << >> THEN << >> ELSE Head(ss) \o Flatten(Tail(ss))

\* ------------------------------------------------------- the graph store
\* DiGraphMap::neighbors_directed, as the subsequence of the iteration order ord.
NeighborsIncoming(n, ord) == SelectSeq(ord, LAMBDA a : << a, n >> \in DOMAIN graph)

NeighborsOutgoing(n, ord) == SelectSeq(ord, LAMBDA b : << n, b >> \in DOMAIN graph)

\* DiGraphMap::edges_directed(n, Incoming), as the set of (source, target, edge id).
IncomingEdges(n) ==
  { << p[1], p[2], graph[p] >> : p \in { q \in DOMAIN graph : q[2] = n } }

\* DiGraphMap::edge_weight
EdgeWeight(a, b) == graph[<< a, b >>]

NodeKind(n) == nodes[n].node_type.kind

IsScriptElement(n) == NodeKind(n) = "HtmlElement" /\ nodes[n].node_type.tag_name = "script"

\* The graphs Init draws: every node one of kindSeq, at most maxEdges edges among
\* the ordered pairs in pairs, every edge one of choices.  NodeId is an opaque handle
\* (graph.rs:16), so kinds are listed in one order of their names only.
InitStore(kindSeq, pairs, maxEdges, choices) ==
  /\ \E rank \in { r \in [NodeIds -> DOMAIN kindSeq] :
                      \A a, b \in NodeIds : a < b => r[a] <= r[b] } :
       nodes = [n \in NodeIds |-> Node(kindSeq[rank[n]])]
  /\ \E present \in { s \in SUBSET pairs : Cardinality(s) <= maxEdges } :
       /\ graph = [p \in present |-> EdgeIdOf(p)]
       /\ edges \in [{ EdgeIdOf(p) : p \in present } -> choices]

InitCall ==
  /\ pc = "idle"
  /\ op = "none"
  /\ arg = 0
  /\ ret = NoResult
  /\ nodes_to_check = << >>
  /\ already_checked = << >>
  /\ prev_root_url = NoResult

\* Queries only read the store, so a behaviour is one graph and one query on it
\* (root_url alone is called again, to compare two invocations).
CanCall == pc = "idle"

\* The state after a query that runs in one step returned or panicked.
Returned(name, a, r) ==
  /\ op' = name
  /\ arg' = a
  /\ ret' = r
  /\ pc' = IF r.status = "ok" THEN "done" ELSE "panic"
  /\ nodes_to_check' = << >>
  /\ already_checked' = << >>

\* ------------------------------------------- all_html_element_modifications
IsStructure(e) == edges[e].edge_type.kind = "Structure"

\* insert_head without the comparison: h stays in front.
insert_head_in_front(h, sorted) == << h >> \o sorted

\* slice::sort_by_key's insert_head: h goes behind the elements whose key is less.
RECURSIVE insert_head(_, _)
insert_head(h, sorted) ==
  IF sorted = << >> \/ ~ (edges[Head(sorted)].edge_timestamp[1] < edges[h].edge_timestamp[1])
  THEN << h >> \o sorted
  ELSE << Head(sorted) >> \o insert_head(h, Tail(sorted))

RECURSIVE insertion_sort(_)
insertion_sort(v) ==
  IF Len(v) < 2 THEN v ELSE insert_head(Head(v), insertion_sort(Tail(v)))

\* modifications.sort_by_key(|(_, edge)| edge.edge_timestamp.expect(..)): the key is
\* only evaluated inside a comparison, and a slice shorter than 2 is never compared.
sort_by_key(v) ==
  IF Len(v) < 2 THEN Ok(v)
  ELSE IF \E i \in DOMAIN v : edges[v[i]].edge_timestamp = None
       THEN Panic("HTML element modification had no timestamp")
       ELSE Ok(insertion_sort(v))

all_html_element_modifications(node_id, ord) ==
  IF NodeKind(node_id) = "HtmlElement"
  THEN LET incoming == NeighborsIncoming(node_id, ord)
           mapped == [i \in DOMAIN incoming |-> EdgeWeight(incoming[i], node_id)]
           modifications == SelectSeq(mapped, LAMBDA e : ~ IsStructure(e))
       IN  sort_by_key(modifications)
  ELSE Panic("Supply a node with HtmlElement node type")

CallModifications ==
  /\ CanCall
  /\ \E node_id \in NodeIds, ord \in AllOrders :
       Returned("all_html_element_modifications", node_id,
                all_html_element_modifications(node_id, ord))
  /\ UNCHANGED << store, prev_root_url >>

\* Inputs: HTML elements and one other kind; every edge points at one node (the
\* query reads no edge but the incoming ones of its argument).
ModKinds == << HtmlElementKind("div"), TextNodeKind >>

ModEdges ==
  { Edge(None, StructureEdge), Edge(None, OtherActionEdge) }
    \cup { Edge(Some(t), OtherActionEdge) : t \in Timestamps }

InitMod ==
  /\ \E hub \in NodeIds :
       InitStore(ModKinds, NodeIds \X { hub }, MaxNodes, ModEdges)
  /\ InitCall

NextMod == CallModifications

SpecMod == InitMod /\ [][NextMod]_vars

\* ------------------------------------------------ direct effects, tracing
ScriptNeighbors(n, ord) ==
  SelectSeq(NeighborsOutgoing(n, ord), LAMBDA m : NodeKind(m) = "Script")

ResourceNeighbors(n, ord) ==
  SelectSeq(NeighborsOutgoing(n, ord), LAMBDA m : NodeKind(m) = "Resource")

IsRequestComplete(a, b) == edges[EdgeWeight(a, b)].edge_type.kind = "RequestComplete"

\* resources_from_script following the attached scripts of a script node as well.
resources_from_script_of_any(node_id, ord) ==
  LET resulting_resources == ResourceNeighbors(node_id, ord)
      attached == ScriptNeighbors(node_id, ord)
      resources_from_executed_script ==
        Flatten([i \in DOMAIN attached |-> ResourceNeighbors(attached[i], ord)])
  IN  IF NodeKind(node_id) = "Script" \/ IsScriptElement(node_id)
      THEN Ok(resulting_resources \o resources_from_executed_script)
      ELSE Panic("Supply a node with Script node type, or an HtmlElement node with tag_name script")

resources_from_script(node_id, ord) ==
  LET resulting_resources == ResourceNeighbors(node_id, ord)
      attached == ScriptNeighbors(node_id, ord)
      resources_from_executed_script ==
        Flatten([i \in DOMAIN attached |-> ResourceNeighbors(attached[i], ord)])
  IN  CASE NodeKind(node_id) = "Script" -> Ok(resulting_resources)
        [] IsScriptElement(node_id) ->
             Ok(resulting_resources \o resources_from_executed_script)
        [] OTHER -> Panic("Supply a node with Script node type, or an HtmlElement node with tag_name script")

\* The script-element arm returning the resources and the scripts together.
script_element_effects_of_both(node_id, ord) ==
  ResourceNeighbors(node_id, ord) \o ScriptNeighbors(node_id, ord)

\* The arm for an HTML element with tag name "script".
script_element_effects(node_id, ord) ==
  LET resource_requests == ResourceNeighbors(node_id, ord)
  IN  IF resource_requests = << >>
      THEN ScriptNeighbors(node_id, ord)
      ELSE resource_requests

direct_downstream_effects_of(node_id, ord) ==
  CASE NodeKind(node_id) = "Resource" ->
         LET attached_script_elements ==
               SelectSeq(NeighborsOutgoing(node_id, ord),
                         LAMBDA n1 : IsRequestComplete(node_id, n1) /\ IsScriptElement(n1))
         IN  Ok(Flatten([i \in DOMAIN attached_script_elements |->
                           ScriptNeighbors(attached_script_elements[i], ord)]))
    [] IsScriptElement(node_id) -> Ok(script_element_effects(node_id, ord))
    [] NodeKind(node_id) = "Script" ->
         LET fetched_resources ==
               SelectSeq(NeighborsIncoming(node_id, ord),
                         LAMBDA n0 : IsRequestComplete(n0, node_id))
             executed_scripts == ScriptNeighbors(node_id, ord)
         IN  Ok(fetched_resources \o executed_scripts)
    [] OTHER -> Panic("not implemented")

CallResourcesFromScript ==
  /\ CanCall
  /\ \E node_id \in NodeIds, ord \in IterationOrders :
       Returned("resources_from_script", node_id, resources_from_script(node_id, ord))
  /\ UNCHANGED << store, prev_root_url >>

CallDirectEffects ==
  /\ CanCall
  /\ \E node_id \in NodeIds, ord \in IterationOrders :
       Returned("direct_downstream_effects_of", node_id,
                direct_downstream_effects_of(node_id, ord))
  /\ UNCHANGED << store, prev_root_url >>

\* all_downstream_effects_of, entry: the work-list holds the start node.
StartAllEffects ==
  /\ CanCall
  /\ \E init_node_id \in NodeIds :
       /\ arg' = init_node_id
       /\ nodes_to_check' = << init_node_id >>
  /\ op' = "all_downstream_effects_of"
  /\ already_checked' = << >>
  /\ pc' = "loop"
  /\ ret' = NoResult
  /\ UNCHANGED << store, prev_root_url >>

\* What one iteration pushes for the direct effects it found: the closure pushes
\* node_id, the node being checked, for every effect that is not yet checked.
to_push(node_id, direct_effects, checked) ==
  LET unchecked == SelectSeq(direct_effects, LAMBDA inner_node_id : inner_node_id \notin Range(checked))
  IN  [i \in DOMAIN unchecked |-> node_id]

\* One iteration of `while let Some(node_id) = nodes_to_check.pop()`.  The lists
\* live in memory: a process whose visited list would pass MaxChecked entries is
\* out of memory and aborts.
LoopStep ==
  /\ pc = "loop"
  /\ nodes_to_check # << >>
  /\ \E ord \in IterationOrders :
       LET node_id == nodes_to_check[Len(nodes_to_check)]
           popped == SubSeq(nodes_to_check, 1, Len(nodes_to_check) - 1)
           direct_effects == direct_downstream_effects_of(node_id, ord)
           checked == Append(already_checked, node_id)
       IN  IF direct_effects.status = "panic"
           THEN /\ pc' = "panic"
                /\ ret' = direct_effects
                /\ nodes_to_check' = popped
                /\ already_checked' = already_checked
           ELSE IF Len(already_checked) >= MaxChecked
           THEN /\ pc' = "abort"
                /\ ret' = NoResult
                /\ nodes_to_check' = popped
                /\ already_checked' = already_checked
           ELSE /\ pc' = "loop"
                /\ ret' = NoResult
                /\ already_checked' = checked
                /\ nodes_to_check' = popped \o to_push(node_id, direct_effects.value, checked)
  /\ UNCHANGED << store, op, arg, prev_root_url >>

\* The work-list is empty: the visited list is the result.
ReturnAllEffects ==
  /\ pc = "loop"
  /\ nodes_to_check = << >>
  /\ pc' = "done"
  /\ ret' = Ok(already_checked)
  /\ UNCHANGED << store, op, arg, nodes_to_check, already_checked, prev_root_url >>

\* Inputs: the three kinds direct effects are defined for and one they are not;
\* request-complete edges and one other edge kind.
TraceKinds == << ResourceKind("http://cdn.b.test/x.js"), ScriptKind, HtmlElementKind("script"), HtmlElementKind("div") >>

TraceEdges == { Edge(Some(10), RequestCompleteEdge), Edge(Some(10), RequestStartEdge("script")) }

InitTrace ==
  /\ InitStore(TraceKinds, NodeIds \X NodeIds, MaxEdges, TraceEdges)
  /\ InitCall

NextEffects ==
  \/ CallDirectEffects
  \/ CallResourcesFromScript

SpecEffects == InitTrace /\ [][NextEffects]_vars

NextTrace ==
  \/ StartAllEffects
  \/ LoopStep
  \/ ReturnAllEffects

SpecTrace == InitTrace /\ [][NextTrace]_vars

\* The loop runs on: an enabled iteration, or the return, is eventually taken.
FairSpecTrace == SpecTrace /\ WF_vars(LoopStep) /\ WF_vars(ReturnAllEffects)

\* ------------------------------------------------------------- root_url
\* root_url counting every DOM-root node, whatever its incoming edges.
root_url_of_any_root(ord) ==
  LET roots == SelectSeq(ord, LAMBDA n : NodeKind(n) = "DomRoot")
      root_urls == [i \in DOMAIN roots |-> nodes[roots[i]].node_type.url]
  IN  IF \E i \in DOMAIN root_urls : root_urls[i] = None
      THEN Panic("Could not find DOM root URL")
      ELSE IF Len(root_urls) # 1
           THEN Panic("assertion failed: root_urls.len() == 1")
           ELSE Ok(root_urls[1][1])

\* The DOM-root nodes without incoming edges, in iteration order; the URL of each
\* is unwrapped as it is met, and the count is asserted afterwards.
root_url(ord) ==
  LET roots == SelectSeq(ord, LAMBDA n : /\ NodeKind(n) = "DomRoot"
                                         /\ IncomingEdges(n) = { })
      root_urls == [i \in DOMAIN roots |-> nodes[roots[i]].node_type.url]
  IN  IF \E i \in DOMAIN root_urls : root_urls[i] = None
      THEN Panic("Could not find DOM root URL")
      ELSE IF Len(root_urls) # 1
           THEN Panic("assertion failed: root_urls.len() == 1")
           ELSE Ok(root_urls[1][1])

CallRootUrl ==
  /\ \/ pc = "idle"
     \/ op = "root_url" /\ pc \in { "done", "panic" }
  /\ \E ord \in IterationOrders : Returned("root_url", 0, root_url(ord))
  /\ prev_root_url' = ret
  /\ UNCHANGED store

\* ------------------------------------------- the libraries the filter calls
\* url::Url::parse, on the URLs the inputs hold: an absolute URL with a host, one
\* without (data:), and a string that is no absolute URL.
url_parse(url) ==
  CASE url = "http://a.test/" -> [ok |-> TRUE, scheme |-> "http", host |-> Some("a.test")]
    [] url = "http://b.test/" -> [ok |-> TRUE, scheme |-> "http", host |-> Some("b.test")]
    [] url = "http://cdn.b.test/x.js" -> [ok |-> TRUE, scheme |-> "http", host |-> Some("cdn.b.test")]
    [] url = "data:text/plain,x" -> [ok |-> TRUE, scheme |-> "data", host |-> None]
    [] OTHER -> [ok |-> FALSE, scheme |-> "", host |-> None]

\* get_domain: the right-hand part of host that is its registrable domain.
get_domain(host) ==
  CASE host = "a.test" -> Ok("a.test")
    [] host = "b.test" -> Ok("b.test")
    [] host = "cdn.b.test" -> Ok("b.test")
    [] OTHER -> Panic("Source URL domain could not be parsed")

\* NetworkFilter::parse: a rule with an unknown option does not parse.
network_filter_parse(pattern) == pattern = "||b.test^$script"

\* NetworkMatchable::matches for the rule ||b.test^$script.
rule_matches(pattern, request) ==
  /\ pattern = "||b.test^$script"
  /\ request.request_type = "script"
  /\ request.domain = "b.test"

Patterns == { "||b.test^$script", "||b.test^$nosuchoption" }

\* ---------------------------------------------- resources_matching_filter
\* The request type of one request-start edge only, the others never compared.
first_request_type(id) ==
  LET starts == { a \in NodeIds : /\ << a, id >> \in DOMAIN graph
                                   /\ edges[EdgeWeight(a, id)].edge_type.kind = "RequestStart" }
  IN  IF starts = { } THEN { }
      ELSE { edges[EdgeWeight(CHOOSE a \in starts : \A b \in starts : a <= b, id)].edge_type.request_type }

\* The request types on the incoming request-start edges of id (a HashSet).
unique_request_types(id) ==
  { edges[EdgeWeight(a, id)].edge_type.request_type :
      a \in { a \in NodeIds : /\ << a, id >> \in DOMAIN graph
                              /\ edges[EdgeWeight(a, id)].edge_type.kind = "RequestStart" } }

\* The closure of the filter over the node map: keeps the node, drops it, or panics.
filter_closure(id, pattern, source_hostname, source_domain) ==
  IF NodeKind(id) # "Resource" THEN Ok(FALSE)
  ELSE
    LET url == nodes[id].node_type.url
        request_url == url_parse(url)
    IN  IF ~ request_url.ok THEN Ok(FALSE)
        ELSE IF request_url.host = None THEN Panic("Request URL has no host")
        ELSE
          LET request_url_domain == get_domain(request_url.host[1])
              types == unique_request_types(id)
          IN  IF request_url_domain.status = "panic" THEN request_url_domain
              ELSE IF Cardinality(types) = 0
              THEN Panic("Resource did not have a corresponding RequestStart edge")
              ELSE IF Cardinality(types) > 1
              THEN Panic("Resource was requested with multiple different request types")
              ELSE Ok(rule_matches(pattern,
                        [request_type |-> CHOOSE t \in types : TRUE,
                         url |-> url,
                         scheme |-> request_url.scheme,
                         hostname |-> request_url.host[1],
                         domain |-> request_url_domain.value,
                         source_hostname |-> source_hostname,
                         source_domain |-> source_domain]))

resources_matching_filter(pattern, ord) ==
  LET source_url == root_url(ord)
  IN  IF source_url.status = "panic" THEN source_url
      ELSE
        LET parsed == url_parse(source_url.value)
        IN  IF ~ parsed.ok THEN Panic("Could not parse source URL")
            ELSE IF parsed.host = None THEN Panic("Source URL has no host")
            ELSE
              LET source_hostname == parsed.host[1]
                  source_domain == get_domain(source_hostname)
                  outcome == [i \in DOMAIN ord |->
                                filter_closure(ord[i], pattern, source_hostname, source_domain.value)]
                  panics == { i \in DOMAIN ord : outcome[i].status = "panic" }
              IN  IF source_domain.status = "panic" THEN source_domain
                  ELSE IF network_filter_parse(pattern)
                  THEN IF panics # { }
                       THEN outcome[CHOOSE i \in panics : \A j \in panics : i <= j]
                       ELSE Ok(SelectSeq(ord, LAMBDA n :
                                 filter_closure(n, pattern, source_hostname, source_domain.value).value))
                  ELSE Ok(<< >>)

CallFilter ==
  /\ CanCall
  /\ \E pattern \in Patterns, ord \in IterationOrders :
       Returned("resources_matching_filter", pattern, resources_matching_filter(pattern, ord))
  /\ UNCHANGED << store, prev_root_url >>

\* Inputs for the root URL: DOM roots with a URL, with another, with none, with
\* one that does not parse; elements; structural edges.
RootKinds ==
  << DomRootKind(Some("http://a.test/")), DomRootKind(Some("http://b.test/")),
     DomRootKind(None), DomRootKind(Some("not a url")), HtmlElementKind("div") >>

RootEdges == { Edge(None, StructureEdge) }

InitRoot ==
  /\ InitStore(RootKinds, NodeIds \X NodeIds, MaxEdges, RootEdges)
  /\ InitCall

NextRoot ==
  \/ CallRootUrl
  \/ CallFilter

SpecRoot == InitRoot /\ [][NextRoot]_vars

\* Inputs for the filter: a DOM root and resources whose URL is absolute with a
\* host, absolute without one, or not absolute; request-start edges of two
\* request types and structural edges.
FilterKinds ==
  << DomRootKind(Some("http://a.test/")), ResourceKind("http://cdn.b.test/x.js"),
     ResourceKind("data:text/plain,x"), ResourceKind("not a url") >>

FilterEdges ==
  { Edge(Some(10), RequestStartEdge("script")), Edge(Some(10), RequestStartEdge("image")),
    Edge(None, StructureEdge) }

InitFilter ==
  /\ InitStore(FilterKinds, NodeIds \X NodeIds, MaxEdges, FilterEdges)
  /\ InitCall

NextFilter == CallFilter

SpecFilter == InitFilter /\ [][NextFilter]_vars

\* ============================================================ properties
\* What the properties say of the store, read off the adjacency index directly.
EdgesInto(n) == { graph[p] : p \in { q \in DOMAIN graph : q[2] = n } }

Successors(n) == { m \in NodeIds : << n, m >> \in DOMAIN graph }

SuccessorsOfKind(n, kind) == { m \in Successors(n) : NodeKind(m) = kind }

ModificationsInto(n) == { e \in EdgesInto(n) : edges[e].edge_type.kind # "Structure" }

TimestampAt(v, i) == edges[v[i]].edge_timestamp

LoneRoots == { n \in NodeIds : NodeKind(n) = "DomRoot" /\ EdgesInto(n) = { } }

RequestTypesInto(n) ==
  { edges[e].edge_type.request_type :
      e \in { e \in EdgesInto(n) : edges[e].edge_type.kind = "RequestStart" } }

\* The resource nodes whose URL parses, and those among them that have a host
\* whose registrable domain is found.
ParsedResources ==
  { n \in NodeIds : NodeKind(n) = "Resource" /\ url_parse(nodes[n].node_type.url).ok }

HostedResources ==
  { n \in ParsedResources :
      /\ url_parse(nodes[n].node_type.url).host # None
      /\ get_domain(url_parse(nodes[n].node_type.url).host[1]).status = "ok" }

\* The page's root URL is found, parses and has a host with a registrable domain.
SourceFound ==
  /\ Cardinality(LoneRoots) = 1
  /\ \A n \in LoneRoots :
       /\ nodes[n].node_type.url # None
       /\ url_parse(nodes[n].node_type.url[1]).ok
       /\ url_parse(nodes[n].node_type.url[1]).host # None
       /\ get_domain(url_parse(nodes[n].node_type.url[1]).host[1]).status = "ok"

\* The direct effects of n as a set (empty where the kind is not supported).
DirectEffectSet(n) == Range(direct_downstream_effects_of(n, Ascending(MaxNodes)).value)

\* C1: every call of all_downstream_effects_of that has entered its loop leaves it:
\* the work-list becomes empty and the result is returned (or the call stops on a
\* node kind direct effects are not defined for).
C1_Terminates == (pc = "loop") ~> (pc = "done" \/ pc = "panic")

\* Behind C1: once an iteration has run and left the work-list non-empty, no later
\* iteration empties it, whatever the memory at hand: the loop is never left.
WorkListStaysNonEmpty ==
  [][(pc = "loop" /\ already_checked # << >> /\ nodes_to_check # << >> /\ pc' = "loop")
       => nodes_to_check' # << >>]_vars

\* C2: during a call of all_downstream_effects_of no node id is in the visited list
\* already_checked twice.
C2_VisitedOnce ==
  \A i, j \in DOMAIN already_checked : already_checked[i] = already_checked[j] => i = j

\* C3: a call of all_downstream_effects_of on a start node of a supported kind
\* returns, and the result holds the start node and every direct effect of it.
C3_ResultHoldsDirectEffects ==
  (pc = "loop")
    ~> \/ pc = "panic"
       \/ /\ pc = "done"
          /\ { arg } \cup DirectEffectSet(arg) \subseteq Range(ret.value)

\* C4: resources_matching_filter returns the empty list for a pattern that does
\* not parse, on every graph.
C4_InvalidPatternIsEmpty ==
  (op = "resources_matching_filter" /\ ~ network_filter_parse(arg)) => ret = Ok(<< >>)

\* C5: all_html_element_modifications of an HTML element panics whenever a
\* non-structural incoming edge has no timestamp, and never returns an edge
\* without one.
C5_MissingTimestampFails ==
  (op = "all_html_element_modifications" /\ NodeKind(arg) = "HtmlElement") =>
    /\ (\E e \in ModificationsInto(arg) : edges[e].edge_timestamp = None) => ret.status = "panic"
    /\ ret.status = "ok" => \A i \in DOMAIN ret.value : TimestampAt(ret.value, i) # None

\* C6: all_html_element_modifications panics on a node that is no HTML element; on
\* an HTML element whose non-structural incoming edges all have a timestamp it
\* returns exactly those edges, each once, in non-decreasing order of timestamp.
C6_ModificationsSorted ==
  op = "all_html_element_modifications" =>
    /\ NodeKind(arg) # "HtmlElement" => ret.status = "panic"
    /\ ( /\ NodeKind(arg) = "HtmlElement"
         /\ \A e \in ModificationsInto(arg) : edges[e].edge_timestamp # None ) =>
         /\ ret.status = "ok"
         /\ Range(ret.value) = ModificationsInto(arg)
         /\ Len(ret.value) = Cardinality(ModificationsInto(arg))
         /\ \A i, j \in DOMAIN ret.value :
              i < j => TimestampAt(ret.value, i)[1] <= TimestampAt(ret.value, j)[1]

\* C6, the case: the edges from nodes 1, 2, 3 carry 30, 10, 20 and come back as
\* 10, 20, 30.
C6_Witness ==
  /\ op = "all_html_element_modifications"
  /\ ret.status = "ok"
  /\ Len(ret.value) = 3
  /\ ret.value = << EdgeIdOf(<< 2, arg >>), EdgeIdOf(<< 3, arg >>), EdgeIdOf(<< 1, arg >>) >>
  /\ [i \in 1 .. 3 |-> TimestampAt(ret.value, i)] = << Some(10), Some(20), Some(30) >>

\* C7 as amended: with a pattern that parses, a resource node whose URL parses and
\* has a host makes the query panic if its request-start edges carry no or
\* several request types; if the root URL is found and every resource whose URL
\* parses has a host and exactly one request type, the query returns, and keeps
\* the resources whose one type the rule matches.
C7_RequestTypes ==
  (op = "resources_matching_filter" /\ network_filter_parse(arg)) =>
    /\ (\E n \in HostedResources : Cardinality(RequestTypesInto(n)) # 1) => ret.status = "panic"
    /\ ( /\ SourceFound
         /\ \A n \in ParsedResources :
              n \in HostedResources /\ Cardinality(RequestTypesInto(n)) = 1 ) =>
         /\ ret.status = "ok"
         /\ Range(ret.value) = { n \in HostedResources : RequestTypesInto(n) = { "script" } }

\* C7, the case: two request-start edges of the same type into one resource, and
\* the query returns that resource.
C7_Witness ==
  /\ op = "resources_matching_filter"
  /\ network_filter_parse(arg)
  /\ ret.status = "ok"
  /\ \E n \in Range(ret.value) :
       Cardinality({ e \in EdgesInto(n) : edges[e].edge_type.kind = "RequestStart" }) = 2

\* C7 as stated: the same of every resource node whose URL parses, with a host or
\* without.
C7_AsStated ==
  (op = "resources_matching_filter" /\ network_filter_parse(arg)) =>
    /\ (\E n \in ParsedResources : Cardinality(RequestTypesInto(n)) # 1) => ret.status = "panic"
    /\ ( /\ SourceFound
         /\ \A n \in ParsedResources : Cardinality(RequestTypesInto(n)) = 1 ) =>
         ret.status = "ok"

\* C8: root_url returns the URL of the one DOM root without incoming edges, panics
\* when there is none or more than one, and returns what the call before returned.
C8_RootUrl ==
  op = "root_url" =>
    /\ ( /\ Cardinality(LoneRoots) = 1
         /\ \A n \in LoneRoots : nodes[n].node_type.url # None ) =>
         \A n \in LoneRoots : ret = Ok(nodes[n].node_type.url[1])
    /\ Cardinality(LoneRoots) # 1 => ret.status = "panic"
    /\ prev_root_url.status # "none" =>
         prev_root_url.status = ret.status /\ prev_root_url.value = ret.value

\* C8, the case: a second call returned a URL, and another DOM root, one with an
\* incoming edge, holds a different URL.
C8_Witness ==
  /\ op = "root_url"
  /\ ret.status = "ok"
  /\ prev_root_url.status = "ok"
  /\ \E n \in NodeIds :
       /\ NodeKind(n) = "DomRoot"
       /\ EdgesInto(n) # { }
       /\ nodes[n].node_type.url # None
       /\ nodes[n].node_type.url[1] # ret.value

\* C9: direct_downstream_effects_of a script element returns its outgoing resource
\* neighbours, each once, when there is one, and else its outgoing script
\* neighbours, each once.
C9_ScriptElementEffects ==
  (op = "direct_downstream_effects_of" /\ IsScriptElement(arg)) =>
    LET wanted == IF SuccessorsOfKind(arg, "Resource") # { }
                  THEN SuccessorsOfKind(arg, "Resource")
                  ELSE SuccessorsOfKind(arg, "Script")
    IN  /\ ret.status = "ok"
        /\ Range(ret.value) = wanted
        /\ Len(ret.value) = Cardinality(wanted)

\* C9, the case: a script element with a resource and a script neighbour yields
\* the resource only.
C9_Witness ==
  /\ op = "direct_downstream_effects_of"
  /\ IsScriptElement(arg)
  /\ SuccessorsOfKind(arg, "Resource") # { }
  /\ SuccessorsOfKind(arg, "Script") # { }
  /\ Range(ret.value) = SuccessorsOfKind(arg, "Resource")

\* C10: resources_from_script panics unless its argument is a script node or a
\* script element; what it returns are resource nodes: the outgoing resource
\* neighbours of the argument and, for a script element only, those of its
\* outgoing script neighbours.
C10_ResourcesFromScript ==
  op = "resources_from_script" =>
    LET own == SuccessorsOfKind(arg, "Resource")
        executed == UNION { SuccessorsOfKind(t, "Resource") : t \in SuccessorsOfKind(arg, "Script") }
    IN  /\ ret.status = "panic" <=> ~ (NodeKind(arg) = "Script" \/ IsScriptElement(arg))
        /\ ret.status = "ok" =>
             /\ \A i \in DOMAIN ret.value : NodeKind(ret.value[i]) = "Resource"
             /\ Range(ret.value) = IF IsScriptElement(arg) THEN own \cup executed ELSE own

\* C10, the case: a script element whose resource is only reached through the
\* script it executes.
C10_Witness ==
  /\ op = "resources_from_script"
  /\ IsScriptElement(arg)
  /\ ret.status = "ok"
  /\ \E r \in Range(ret.value) : r \notin Successors(arg)

=============================================================================
